---- MODULE Spec2Model ----
(***************************************************************************)
(* A model of streamlit_app.py (the "SEO Genie" page): the five helper     *)
(* functions fetch_html, calculate_seo_score, get_top_keywords,            *)
(* call_seo_genie, extract_onpage_data and the script body main().         *)
(*                                                                         *)
(* Strings are sequences of one-character strings, so that len(), prefix   *)
(* tests, strip() and the regular expression of get_top_keywords are       *)
(* computed character by character.  Each helper has a specification of    *)
(* its own (SpecScore, SpecFetch, SpecKeywords, SpecGenie) whose Init      *)
(* draws the arguments and the environment's answer from bounded sets and  *)
(* whose single action applies the function; Spec is one run of main().    *)
(***************************************************************************)
EXTENDS Integers, Sequences, FiniteSets, TLC

VARIABLES
    pc,            \* position of the function / script being run
    log,           \* what has been emitted through st.* and which helpers ran, in order
    \* calculate_seo_score
    title,         \* argument title
    meta_desc,     \* argument meta_desc
    headers,       \* argument headers: h1..h4 -> list of heading texts
    score,         \* the local `score` as it stands at line 90, before min()
    seo_score,     \* the value returned
    \* fetch_html
    url,           \* argument url
    net,           \* what requests.get does with the request (the environment)
    requested,     \* the URL handed to requests.get
    html,          \* the value returned
    \* get_top_keywords
    text,          \* argument text
    top_n,         \* argument top_n
    words,         \* the local `words`
    freq,          \* the local `freq`, a dict in insertion order
    top_keywords,  \* the value returned
    \* call_seo_genie
    page_title,    \* argument page_title
    genie_desc,    \* argument meta_desc of call_seo_genie
    completion,    \* what openai.Completion.create does (the environment)
    suggestions,   \* the value returned
    \* main
    clicked,       \* st.button("Analyze")
    url1, url2,    \* the two text inputs
    env,           \* the environment of one run: per site, the answers of the network,
                   \* the document served and the answer of the completion service
    html1, html2,  \* locals of main
    score1, score2 \* locals of main; Unbound until assigned

scoreVars == <<title, meta_desc, headers, score, seo_score>>
fetchVars == <<url, net, requested, html>>
kwVars    == <<text, top_n, words, freq, top_keywords>>
genieVars == <<page_title, genie_desc, completion, suggestions>>
mainVars  == <<clicked, url1, url2, env, html1, html2, score1, score2>>
vars == <<pc, log, scoreVars, fetchVars, kwVars, genieVars, mainVars>>

\* Python values are tagged records, so that None, a string and an integer can
\* be told apart: None, a local name that has not been assigned yet, an int.
None == [type |-> "NoneType"]
Unbound == [type |-> "unbound"]
PyInt(n) == [type |-> "int", v |-> n]

\* ------------------------------------------------------------------ bounds
MaxTitleLen == 72
MaxDescLen == 202
MaxHeadings == 1
MaxUrlParts == 2
MaxTextLen == 5
MaxWords == 6
MaxTopN == 3
MaxGenLen == 3

\* ----------------------------------------------------------------- strings
\* n copies of the character c
Rep(c, n) == [i \in 1..n |-> c]

RECURSIVE Concat(_)
\* the concatenation of a sequence of strings
Concat(parts) ==
    IF parts = <<>> THEN <<>> ELSE Head(parts) \o Concat(Tail(parts))

\* all sequences over S of length at most n
SeqsUpTo(S, n) == UNION {[1..k -> S] : k \in 0..n}

\* ------------------------------------------------- idle values of each part
ScoreIdle ==
    /\ title = <<>> /\ meta_desc = <<>> /\ headers = <<>>
    /\ score = 0 /\ seo_score = 0
FetchIdle ==
    /\ url = <<>> /\ net = None /\ requested = None /\ html = None
KwIdle ==
    /\ text = <<>> /\ top_n = 0 /\ words = <<>> /\ freq = <<>>
    /\ top_keywords = None
GenieIdle ==
    /\ page_title = <<>> /\ genie_desc = <<>> /\ completion = None
    /\ suggestions = None
MainIdle ==
    /\ clicked = FALSE /\ url1 = <<>> /\ url2 = <<>> /\ env = <<>>
    /\ html1 = Unbound /\ html2 = Unbound
    /\ score1 = Unbound /\ score2 = Unbound

\* ======================================================= calculate_seo_score
Levels == {"h1", "h2", "h3", "h4"}

\* TitlePoints with the upper edge of the ideal band left out (< 60)
TitlePointsOpenBand(t) ==
    IF 50 <= Len(t) /\ Len(t) < 60 THEN 20
    ELSE IF (30 <= Len(t) /\ Len(t) < 50) \/ (60 < Len(t) /\ Len(t) <= 70) THEN 10
    ELSE 5

\* lines 59-64: the title length band
TitlePoints(t) ==
    IF 50 <= Len(t) /\ Len(t) <= 60 THEN 20
    ELSE IF (30 <= Len(t) /\ Len(t) < 50) \/ (60 < Len(t) /\ Len(t) <= 70) THEN 10
    ELSE 5

\* lines 67-72: the description length band
DescPoints(d) ==
    IF 120 <= Len(d) /\ Len(d) <= 160 THEN 20
    ELSE IF (80 <= Len(d) /\ Len(d) < 120) \/ (160 < Len(d) /\ Len(d) <= 200) THEN 10
    ELSE 5

\* lines 75-78: presence of an h1
H1Points(h) == IF Len(h["h1"]) > 0 THEN 20 ELSE 0

\* lines 81-87: h2 and h3 usage
H2H3Points(h) ==
    LET h2_count == Len(h["h2"])
        h3_count == Len(h["h3"])
    IN  (IF h2_count >= 1 THEN 10 ELSE 0) + (IF h3_count >= 2 THEN 10 ELSE 0)

\* lines 57-87: the local `score` when line 90 is reached
ScoreSum(t, d, h) ==
    TitlePoints(t) + DescPoints(d) + H1Points(h) + H2H3Points(h)

Min(a, b) == IF a < b THEN a ELSE b

\* CalculateSeoScore returning the sum as it stands, without min(score, 60)
CalculateSeoScoreUncapped(t, d, h) == ScoreSum(t, d, h)

\* line 90: the value returned
CalculateSeoScore(t, d, h) == Min(ScoreSum(t, d, h), 60)

\* The headings found on a page: up to MaxHeadings of each level, and one more
\* h3 (the only level whose threshold is two).
HeaderMaps ==
    {h \in [Levels -> {Rep("H", n) : n \in 0..(MaxHeadings + 1)}] :
        \A l \in Levels \ {"h3"} : Len(h[l]) <= MaxHeadings}

InitScore ==
    /\ pc = "calculate_seo_score"
    /\ log = <<>>
    /\ title \in {Rep("x", n) : n \in 0..MaxTitleLen}
    /\ meta_desc \in {Rep("x", n) : n \in 0..MaxDescLen}
    /\ headers \in HeaderMaps
    /\ score = 0
    /\ seo_score = 0
    /\ FetchIdle /\ KwIdle /\ GenieIdle /\ MainIdle

DoCalculateSeoScore ==
    /\ pc = "calculate_seo_score"
    /\ score' = ScoreSum(title, meta_desc, headers)
    /\ seo_score' = CalculateSeoScore(title, meta_desc, headers)
    /\ pc' = "returned"
    /\ UNCHANGED <<log, title, meta_desc, headers, fetchVars, kwVars, genieVars, mainVars>>

NextScore == DoCalculateSeoScore

SpecScore == InitScore /\ [][NextScore]_vars

\* The scoring table of the specification, by length and by count.
TableTitle(t) ==
    IF t \in 50..60 THEN 20 ELSE IF t \in (30..49) \cup (61..70) THEN 10 ELSE 5
TableDesc(d) ==
    IF d \in 120..160 THEN 20 ELSE IF d \in (80..119) \cup (161..200) THEN 10 ELSE 5
TableHeadings(n1, n2, n3) ==
    (IF n1 >= 1 THEN 20 ELSE 0) + (IF n2 >= 1 THEN 10 ELSE 0) + (IF n3 >= 2 THEN 10 ELSE 0)

\* C3 as claimed: the value calculate_seo_score returns is the sum the
\* scoring table gives for the title length, the description length and the
\* numbers of h1, h2 and h3 headings.
C3_ScoreIsTableSum ==
    pc = "returned" =>
        seo_score = TableTitle(Len(title)) + TableDesc(Len(meta_desc))
                        + TableHeadings(Len(headers["h1"]), Len(headers["h2"]),
                                        Len(headers["h3"]))

\* C3 as amended: the value calculate_seo_score returns is the smaller of 60
\* and the sum the scoring table gives for the title length, the description
\* length and the numbers of h1, h2 and h3 headings (h4 does not count); the
\* band edges score as listed, the empty page scores 10 and the ideal page
\* (table sum 80) scores 60.
C3_ScoreIsCappedTable ==
    pc = "returned" =>
        LET t == Len(title)
            d == Len(meta_desc)
            n1 == Len(headers["h1"])
            n2 == Len(headers["h2"])
            n3 == Len(headers["h3"])
            edgesT == [x \in {49, 50, 60, 61, 70, 71} |->
                          IF x \in {50, 60} THEN 20 ELSE IF x = 71 THEN 5 ELSE 10]
            edgesD == [x \in {119, 120, 160, 161, 200, 201} |->
                          IF x \in {120, 160} THEN 20 ELSE IF x = 201 THEN 5 ELSE 10]
        IN  /\ seo_score =
                  Min(TableTitle(t) + TableDesc(d) + TableHeadings(n1, n2, n3), 60)
            /\ t \in DOMAIN edgesT =>
                  seo_score = Min(edgesT[t] + TableDesc(d) + TableHeadings(n1, n2, n3), 60)
            /\ d \in DOMAIN edgesD =>
                  seo_score = Min(TableTitle(t) + edgesD[d] + TableHeadings(n1, n2, n3), 60)
            /\ (t = 0 /\ d = 0 /\ n1 = 0 /\ n2 = 0 /\ n3 = 0) => seo_score = 10
            /\ (t = 55 /\ d = 140 /\ n1 = 1 /\ n2 = 1 /\ n3 = 2) =>
                  (seo_score = 60 /\ score = 80)

\* the ideal page has been scored, with an h4 on it: 80 points capped to 60
C3_Witness ==
    /\ pc = "returned"
    /\ Len(title) = 55 /\ Len(meta_desc) = 140
    /\ Len(headers["h1"]) = 1 /\ Len(headers["h2"]) = 1
    /\ Len(headers["h3"]) = 2 /\ Len(headers["h4"]) = 1
    /\ seo_score = 60

\* C4 as claimed: the value returned is an integer from 0 to 60, each of the
\* four heuristics adds one of its fixed, non-negative amounts, and the sum
\* never exceeds 60, so min(score, 60) returns the sum unchanged.
C4_CapNeverApplies ==
    pc = "returned" =>
        /\ seo_score \in 0..60
        /\ TitlePoints(title) \in {5, 10, 20}
        /\ DescPoints(meta_desc) \in {5, 10, 20}
        /\ H1Points(headers) \in {0, 20}
        /\ H2H3Points(headers) \in {0, 10, 20}
        /\ score <= 60
        /\ seo_score = score

\* C4 as amended: the value returned is an integer from 0 to 60 and each of
\* the four heuristics adds one of its fixed, non-negative amounts; the sum
\* itself runs from 10 to 80, and min(score, 60) is what keeps the result
\* within 60: it returns the sum unchanged exactly when the sum is at most 60.
C4_ScoreInRange ==
    pc = "returned" =>
        /\ seo_score \in 0..60
        /\ TitlePoints(title) \in {5, 10, 20}
        /\ DescPoints(meta_desc) \in {5, 10, 20}
        /\ H1Points(headers) \in {0, 20}
        /\ H2H3Points(headers) \in {0, 10, 20}
        /\ score \in 10..80
        /\ (seo_score = score) <=> (score <= 60)
        /\ score > 60 => seo_score = 60

\* a page has been scored whose sum is above the cap
C4_Witness ==
    /\ pc = "returned"
    /\ score = 80 /\ seo_score = 60
    /\ Len(headers["h3"]) >= 2

\* ================================================================ fetch_html
Http == <<"h", "t", "t", "p">>
HttpScheme == Http \o <<":", "/", "/">>
HttpsScheme == Http \o <<"s", ":", "/", "/">>

\* str.startswith
StartsWith(s, prefix) ==
    Len(s) >= Len(prefix) /\ SubSeq(s, 1, Len(prefix)) = prefix

\* lines 21-22: the URL handed to requests.get
NormalizeUrl(u) == IF ~StartsWith(u, Http) THEN HttpsScheme \o u ELSE u

\* The pages served.  The text of a response is a string; it is kept as its
\* markup together with what BeautifulSoup finds in it (extract_onpage_data's
\* result), which is all the script reads of it.
NoHeadings == [l \in Levels |-> <<>>]
Page(markup, t, d, h, body) ==
    [type |-> "str", s |-> markup, title |-> t, meta_desc |-> d,
     headers |-> h, texts |-> body]
EmptyBody == Page(<<>>, <<>>, <<>>, NoHeadings, <<>>)
BarePage ==
    Page(<<"<", "p", ">">>, <<>>, <<>>, NoHeadings,
         <<"c", "a", "t", " ", "c", "a", "t", " ", "d", "o", "g">>)
GoodPage ==
    Page(<<"<", "h", "1", ">">>, Rep("x", 55), Rep("x", 140),
         [l \in Levels |-> IF l = "h3" THEN Rep("H", 2) ELSE Rep("H", 1)],
         <<"d", "o", "g", " ", "a", "b", "c", "1">>)
FairPage ==
    Page(<<"<", "h", "2", ">">>, Rep("x", 40), Rep("x", 100),
         [l \in Levels |-> IF l = "h2" THEN Rep("H", 1) ELSE <<>>],
         <<"b", "i", "r", "d">>)
Bodies == {EmptyBody, BarePage, GoodPage, FairPage}

\* What requests.get(url, timeout=10) can do: answer with a status code and a
\* body, or raise (DNS failure, timeout, connection reset, invalid URL).
StatusCodes == {200, 201, 204, 404, 500}
NetRaises ==
    {[kind |-> "raise", status_code |-> 0, text |-> EmptyBody, error |-> e] :
        e \in {"ConnectionError", "Timeout"}}
NetResponses ==
    {[kind |-> "response", status_code |-> c, text |-> b, error |-> ""] :
        c \in StatusCodes, b \in Bodies}
NetAnswers == NetResponses \cup NetRaises

\* lines 15-31.  The result: the value returned, the URL requested and the
\* st.* calls made, in order.
FetchHtml(u, answer) ==
    LET target == NormalizeUrl(u) IN
    IF answer.kind = "raise"
    THEN [ret |-> None, requested |-> target,
          out |-> << <<"st.error", "Error fetching the URL", answer.error>> >>]
    ELSE IF answer.status_code = 200
    THEN [ret |-> answer.text, requested |-> target, out |-> <<>>]
    ELSE [ret |-> None, requested |-> target,
          out |-> << <<"st.warning", "Could not retrieve the page", answer.status_code>> >>]

UrlParts ==
    {Http, HttpScheme, HttpsScheme,
     <<"b", "i", "n", ".", "o", "r", "g">>, <<"e", "x", ".", "c", "o", "m">>}
Urls == {Concat(parts) : parts \in SeqsUpTo(UrlParts, MaxUrlParts)}

\* an st.* call or a helper call made outside main carries site 0
Tag(site, out) == [i \in 1..Len(out) |-> <<out[i][1], site, out[i][2], out[i][3]>>]

InitFetch ==
    /\ pc = "fetch_html"
    /\ log = <<>>
    /\ url \in Urls
    /\ net \in NetAnswers
    /\ requested = None
    /\ html = None
    /\ ScoreIdle /\ KwIdle /\ GenieIdle /\ MainIdle

DoFetchHtml ==
    /\ pc = "fetch_html"
    /\ LET r == FetchHtml(url, net) IN
        /\ requested' = r.requested
        /\ html' = r.ret
        /\ log' = log \o Tag(0, r.out)
    /\ pc' = "returned"
    /\ UNCHANGED <<url, net, scoreVars, kwVars, genieVars, mainVars>>

NextFetch == DoFetchHtml

SpecFetch == InitFetch /\ [][NextFetch]_vars

\* a URL that begins with a scheme the fetcher recognizes
HasScheme(u) == StartsWith(u, HttpScheme) \/ StartsWith(u, HttpsScheme)

\* C5: for a non-empty URL that does not begin with http:// or https:// the
\* request goes to "https://" followed by the URL, and for a URL that does it
\* goes to the URL unchanged; hosts whose name begins with "http" included.
C5_SchemeNormalized ==
    (pc = "returned" /\ url # <<>>) =>
        requested = IF HasScheme(url) THEN url ELSE HttpsScheme \o url

\* C6: fetch_html returns the body exactly when the status is a 2xx; on any
\* other status it emits one warning and returns None, and when the request
\* raises it emits one error message and returns None.
C6_BodyIffSuccessStatus ==
    pc = "returned" =>
        IF net.kind = "response" /\ net.status_code \in 200..299
        THEN html = net.text /\ log = <<>>
        ELSE /\ html = None
             /\ Len(log) = 1
             /\ log[1][1] = IF net.kind = "response" THEN "st.warning" ELSE "st.error"

\* ========================================================== get_top_keywords
\* The characters of the model.  NonAsciiLetter stands for one letter outside
\* ASCII (an e with an acute accent); it is already lower case.
LowerLetters == {"a", "b", "c", "d", "g", "i", "o", "r", "t"}
UpperLetters == {"A", "B"}
DigitChars == {"1"}
NonAsciiLetter == "e-acute"

\* str.lower, one character
LowerChar(c) == IF c = "A" THEN "a" ELSE IF c = "B" THEN "b" ELSE c
\* str.lower
Lower(s) == [i \in 1..Len(s) |-> LowerChar(s[i])]

\* the character class [a-zA-Z]
IsAsciiLetter(c) == c \in LowerLetters \cup UpperLetters
\* the character class \w of a str pattern: letters of any script, digits, "_"
IsWordChar(c) == IsAsciiLetter(c) \/ c \in DigitChars \/ c = "_" \/ c = NonAsciiLetter

\* the assertion \b before position i of s (i in 1..Len(s)+1)
WordBoundary(s, i) ==
    LET before == i > 1 /\ IsWordChar(s[i - 1])
        after == i <= Len(s) /\ IsWordChar(s[i])
    IN  before # after

RECURSIVE LetterRunLen(_, _)
\* how many [a-zA-Z] follow from position i on
LetterRunLen(s, i) ==
    IF i <= Len(s) /\ IsAsciiLetter(s[i]) THEN 1 + LetterRunLen(s, i + 1) ELSE 0

\* \b[a-zA-Z]{3,}\b tried at position i: the length matched, 0 for no match.
\* The quantifier is greedy and gives back one letter at a time.
MatchAt(s, i) ==
    IF ~WordBoundary(s, i) THEN 0
    ELSE LET most == LetterRunLen(s, i)
             fits == {n \in 3..most : WordBoundary(s, i + n)}
         IN  IF fits = {} THEN 0 ELSE CHOOSE n \in fits : \A m \in fits : m <= n

RECURSIVE FindAllFrom(_, _)
\* re.findall from position i on: leftmost matches, not overlapping
FindAllFrom(s, i) ==
    IF i > Len(s) THEN <<>>
    ELSE LET n == MatchAt(s, i) IN
         IF n > 0 THEN <<SubSeq(s, i, i + n - 1)>> \o FindAllFrom(s, i + n)
         ELSE FindAllFrom(s, i + 1)

\* line 107
FindWords(t) == FindAllFrom(Lower(t), 1)

\* line 110: freq[w] = freq.get(w, 0) + 1, on a dict kept in insertion order
Count(f, w) ==
    IF \E i \in 1..Len(f) : f[i][1] = w
    THEN [i \in 1..Len(f) |-> IF f[i][1] = w THEN <<w, f[i][2] + 1>> ELSE f[i]]
    ELSE Append(f, <<w, 1>>)

RECURSIVE CountAll(_, _)
\* lines 108-110
CountAll(f, ws) == IF ws = <<>> THEN f ELSE CountAll(Count(f, Head(ws)), Tail(ws))

\* one step of the stable sort by count, descending: x goes after every item
\* already placed whose count is at least x's
InsertByCount(sorted, x) ==
    LET k == Cardinality({i \in 1..Len(sorted) : sorted[i][2] >= x[2]})
    IN  SubSeq(sorted, 1, k) \o <<x>> \o SubSeq(sorted, k + 1, Len(sorted))

RECURSIVE SortFrom(_, _)
SortFrom(sorted, items) ==
    IF items = <<>> THEN sorted
    ELSE SortFrom(InsertByCount(sorted, Head(items)), Tail(items))

\* SortedFreq as an ascending sort turned round, which turns the ties round too
RECURSIVE Reversed(_)
Reversed(seq) == IF seq = <<>> THEN <<>> ELSE Append(Reversed(Tail(seq)), Head(seq))
SortedFreqTiesReversed(f) == SortFrom(<<>>, Reversed(f))

\* line 113: sorted(freq.items(), key=lambda x: x[1], reverse=True)
SortedFreq(f) == SortFrom(<<>>, f)

\* line 115: the slice [:top_n], for top_n >= 0
Slice(seq, n) == SubSeq(seq, 1, Min(n, Len(seq)))

\* lines 102-115
GetTopKeywords(t, n) == Slice(SortedFreq(CountAll(<<>>, FindWords(t))), n)

\* The texts: every string of at most MaxTextLen characters over a small
\* alphabet, and every text of at most MaxWords words separated by blanks.
Alphabet == {"a", "B", "1", " ", NonAsciiLetter}
Vocabulary == {<<"c", "a", "t">>, <<"d", "o", "g">>, <<"b", "i", "r", "d">>}
RECURSIVE Join(_)
Join(ws) ==
    IF ws = <<>> THEN <<>>
    ELSE IF Len(ws) = 1 THEN Head(ws)
    ELSE Head(ws) \o <<" ">> \o Join(Tail(ws))
Texts ==
    SeqsUpTo(Alphabet, MaxTextLen)
        \cup {Join(ws) : ws \in SeqsUpTo(Vocabulary, MaxWords)}

InitKeywords ==
    /\ pc = "get_top_keywords"
    /\ log = <<>>
    /\ text \in Texts
    /\ top_n \in 0..MaxTopN
    /\ words = <<>>
    /\ freq = <<>>
    /\ top_keywords = None
    /\ ScoreIdle /\ FetchIdle /\ GenieIdle /\ MainIdle

DoGetTopKeywords ==
    /\ pc = "get_top_keywords"
    /\ words' = FindWords(text)
    /\ freq' = CountAll(<<>>, FindWords(text))
    /\ top_keywords' = GetTopKeywords(text, top_n)
    /\ pc' = "returned"
    /\ UNCHANGED <<log, text, top_n, scoreVars, fetchVars, genieVars, mainVars>>

NextKeywords == DoGetTopKeywords

SpecKeywords == InitKeywords /\ [][NextKeywords]_vars

\* how often w is among the tokens ws, and where it is first
Occurrences(ws, w) == Cardinality({i \in 1..Len(ws) : ws[i] = w})
FirstAt(ws, w) == CHOOSE i \in 1..Len(ws) : ws[i] = w /\ \A j \in 1..(i - 1) : ws[j] # w
\* a ranks before b: more occurrences, or as many and found earlier
RanksBefore(ws, a, b) ==
    \/ Occurrences(ws, a) > Occurrences(ws, b)
    \/ /\ Occurrences(ws, a) = Occurrences(ws, b)
       /\ FirstAt(ws, a) < FirstAt(ws, b)

ExampleText == Join(<< <<"c", "a", "t">>, <<"c", "a", "t">>, <<"d", "o", "g">>,
                       <<"d", "o", "g">>, <<"d", "o", "g">>, <<"b", "i", "r", "d">> >>)

\* C7: get_top_keywords(text, n), n >= 0, returns at most n pairs with
\* distinct terms, each term a token with its number of occurrences, ordered
\* by count descending and then by first occurrence, and every token left
\* out ranks after all those returned; "cat cat dog dog dog bird" with n = 2
\* gives dog 3, cat 2.
C7_TopKeywordsRanked ==
    pc = "returned" =>
        LET r == top_keywords
            returned == {r[i][1] : i \in 1..Len(r)}
            tokens == {words[i] : i \in 1..Len(words)}
        IN  /\ Len(r) <= top_n
            /\ \A i, j \in 1..Len(r) : i # j => r[i][1] # r[j][1]
            /\ \A i \in 1..Len(r) :
                  r[i][1] \in tokens /\ r[i][2] = Occurrences(words, r[i][1])
            /\ \A i, j \in 1..Len(r) : i < j => RanksBefore(words, r[i][1], r[j][1])
            /\ \A w \in tokens \ returned :
                  Len(r) = top_n /\ \A i \in 1..Len(r) : RanksBefore(words, r[i][1], w)
            /\ (text = ExampleText /\ top_n = 2) =>
                  r = << <<(<<"d", "o", "g">>), 3>>, <<(<<"c", "a", "t">>), 2>> >>

\* the example has been ranked: three distinct tokens, one of them left out
C7_Witness ==
    /\ pc = "returned"
    /\ text = ExampleText /\ top_n = 2
    /\ Len(freq) = 3
    /\ top_keywords = << <<(<<"d", "o", "g">>), 3>>, <<(<<"c", "a", "t">>), 2>> >>

RECURSIVE LetterRunsFrom(_, _)
\* the maximal runs of three or more ASCII letters of s from position i on,
\* every other character being a separator
LetterRunsFrom(s, i) ==
    IF i > Len(s) THEN <<>>
    ELSE IF ~IsAsciiLetter(s[i]) THEN LetterRunsFrom(s, i + 1)
    ELSE LET n == LetterRunLen(s, i) IN
         IF n >= 3 THEN <<Lower(SubSeq(s, i, i + n - 1))>> \o LetterRunsFrom(s, i + n)
         ELSE LetterRunsFrom(s, i + n)

\* C8: the tokens are exactly the lower-cased maximal runs of three or more
\* ASCII letters of the text, every other character (digit, underscore,
\* punctuation, letter outside ASCII) separating them.
C8_TokensAreLetterRuns ==
    pc = "returned" => words = LetterRunsFrom(text, 1)

\* ============================================================ call_seo_genie
Whitespace == {" ", "\n"}

RECURSIVE LStrip(_)
LStrip(s) == IF s # <<>> /\ Head(s) \in Whitespace THEN LStrip(Tail(s)) ELSE s
RECURSIVE RStrip(_)
RStrip(s) ==
    IF s # <<>> /\ s[Len(s)] \in Whitespace THEN RStrip(SubSeq(s, 1, Len(s) - 1)) ELSE s
\* str.strip
Strip(s) == RStrip(LStrip(s))

\* lines 139-141: the static advice, three lines
StaticAdvice ==
    <<"1. Ensure your title is eye-catching and includes your main keyword.\n",
      "2. Spice up your meta description with a strong call-to-action.\n",
      "3. Add more engaging headings to structure your content effectively.">>

\* What openai.Completion.create can do: answer with a text, or raise (no API
\* key, transport or quota error); an answer with no choices makes
\* completion.choices[0] raise inside the same try.
GeneratedTexts == SeqsUpTo({" ", "\n", "a"}, MaxGenLen)
CompletionAnswers ==
    {[kind |-> "ok", text |-> t, error |-> ""] : t \in GeneratedTexts}
        \cup {[kind |-> "raise", text |-> <<>>, error |-> e] :
                 e \in {"AuthenticationError", "APIError", "IndexError"}}

\* CallSeoGenie without the .strip() of line 136
CallSeoGenieUnstripped(pt, md, answer) ==
    IF answer.kind = "ok"
    THEN [ret |-> answer.text, out |-> <<>>]
    ELSE [ret |-> StaticAdvice,
          out |-> << <<"st.warning", "OpenAI API error or missing API key", answer.error>> >>]

\* lines 117-141.  The result: the value returned and the st.* calls made.
CallSeoGenie(pt, md, answer) ==
    IF answer.kind = "ok"
    THEN [ret |-> Strip(answer.text), out |-> <<>>]
    ELSE [ret |-> StaticAdvice,
          out |-> << <<"st.warning", "OpenAI API error or missing API key", answer.error>> >>]

InitGenie ==
    /\ pc = "call_seo_genie"
    /\ log = <<>>
    /\ page_title \in {<<>>, Rep("x", 55)}
    /\ genie_desc \in {<<>>, Rep("x", 140)}
    /\ completion \in CompletionAnswers
    /\ suggestions = None
    /\ ScoreIdle /\ FetchIdle /\ KwIdle /\ MainIdle

DoCallSeoGenie ==
    /\ pc = "call_seo_genie"
    /\ LET r == CallSeoGenie(page_title, genie_desc, completion) IN
        /\ suggestions' = r.ret
        /\ log' = log \o Tag(0, r.out)
    /\ pc' = "returned"
    /\ UNCHANGED <<page_title, genie_desc, completion, scoreVars, fetchVars, kwVars, mainVars>>

NextGenie == DoCallSeoGenie

SpecGenie == InitGenie /\ [][NextGenie]_vars

\* r is t without the whitespace at its two ends
IsTrimOf(r, t) ==
    \E a, b \in 0..Len(t) :
        /\ a + b <= Len(t)
        /\ \A i \in 1..a : t[i] \in Whitespace
        /\ \A i \in (Len(t) - b + 1)..Len(t) : t[i] \in Whitespace
        /\ r = SubSeq(t, a + 1, Len(t) - b)
        /\ r # <<>> => (r[1] \notin Whitespace /\ r[Len(r)] \notin Whitespace)

\* C9: call_seo_genie always returns a string: the generated text trimmed
\* when the service answers, with no warning; and when the call raises (any
\* error, no API key), one warning and the same three-line static advice,
\* whatever the title and the description.
C9_GenieNeverFails ==
    pc = "returned" =>
        IF completion.kind = "ok"
        THEN IsTrimOf(suggestions, completion.text) /\ log = <<>>
        ELSE /\ suggestions = StaticAdvice
             /\ Len(suggestions) = 3
             /\ Len(log) = 1 /\ log[1][1] = "st.warning"

\* the service failed for a page with a title and a description, and the
\* static advice came back
C9_Witness ==
    /\ pc = "returned"
    /\ completion.kind = "raise" /\ completion.error = "AuthenticationError"
    /\ page_title # <<>> /\ genie_desc # <<>>
    /\ suggestions = StaticAdvice

\* ====================================================== extract_onpage_data
\* lines 33-51: the four values read off the parsed markup
ExtractOnpageData(h) ==
    [title |-> h.title, meta_desc |-> h.meta_desc, headers |-> h.headers,
     texts |-> h.texts]

\* ====================================================================== main
\* the truth value of a str or None (`if url1:`, `if html1:`)
Truthy(v) == v.type = "str" /\ Len(v.s) > 0
PyStr(chars) == [type |-> "str", s |-> chars]

\* lines 159-184 for site 1, lines 186-210 for site 2, given what fetch_html
\* did (f) and whether the test `if html:` passed.  The result: the locals
\* html and score the block binds (score stays as it was when the test
\* fails) and what it calls, in order.
SiteBlock(site, f, genie, scoreBefore, passed) ==
    LET head == << <<"st.subheader", site, "Site Analysis", 0>>,
                   <<"call", site, "fetch_html", f.requested>> >>
                    \o Tag(site, f.out)
    IN  IF ~passed
        THEN [html |-> f.ret, score |-> scoreBefore, out |-> head]
        ELSE
          LET d == ExtractOnpageData(f.ret)
              sc == CalculateSeoScore(d.title, d.meta_desc, d.headers)
              top == GetTopKeywords(d.texts, 10)
              g == CallSeoGenie(d.title, d.meta_desc, genie)
          IN  [html |-> f.ret, score |-> PyInt(sc),
               out |-> head
                   \o << <<"call", site, "extract_onpage_data", 0>>,
                         <<"call", site, "calculate_seo_score", sc>>,
                         <<"st.markdown", site, "Title", d.title>>,
                         <<"st.markdown", site, "Meta Description", d.meta_desc>>,
                         <<"st.markdown", site, "H1 Tags", d.headers["h1"]>>,
                         <<"st.metric", site, "SEO Health Score", sc>>,
                         <<"st.progress", site, "score / 60", sc>>,
                         <<"st.markdown", site, "Keyword Density", 0>>,
                         <<"call", site, "generate_wordcloud", d.texts>>,
                         <<"call", site, "get_top_keywords", top>>,
                         <<"st.write", site, "Top Keywords", top>>,
                         <<"st.markdown", site, "Recommendations", 0>>,
                         <<"call", site, "call_seo_genie", 0>> >>
                   \o Tag(site, g.out)
                   \o << <<"st.info", site, "suggestions", g.ret>> >>]

\* AnalyzeSite with `if html is not None:` in place of `if html:`
AnalyzeSiteNotNone(site, u, answer, genie, scoreBefore) ==
    LET f == FetchHtml(u, answer)
    IN  SiteBlock(site, f, genie, scoreBefore, f.ret # None)

\* lines 161-162 and 188-189: the fetch and the test `if html:`
AnalyzeSite(site, u, answer, genie, scoreBefore) ==
    LET f == FetchHtml(u, answer)
    IN  SiteBlock(site, f, genie, scoreBefore, Truthy(f.ret))

\* lines 213-221: the block under `if url1 and url2:`.  Reading a local that
\* was never bound raises UnboundLocalError, which nothing in main catches.
ComparisonSummary(s1, s2) ==
    LET head == << <<"st.title", 0, "Comparison Summary", 0>> >> IN
    IF s1 = Unbound
    THEN [raised |-> TRUE, out |-> head \o << <<"raise", 0, "UnboundLocalError", "score1">> >>]
    ELSE IF s2 = Unbound
    THEN [raised |-> TRUE, out |-> head \o << <<"raise", 0, "UnboundLocalError", "score2">> >>]
    ELSE LET diff_score == s1.v - s2.v IN
         [raised |-> FALSE,
          out |-> head \o
              << IF diff_score > 0
                 THEN <<"st.success", 0, "Your site leads by", diff_score>>
                 ELSE IF diff_score < 0
                 THEN <<"st.warning", 0, "Competitor leads by", 0 - diff_score>>
                 ELSE <<"st.info", 0, "It's a tie", 0>> >>]

\* the two text inputs: left empty, a bare host, a host whose name begins
\* with "http", and a URL with its scheme
InputUrls ==
    {PyStr(<<>>), PyStr(<<"e", "x", ".", "c", "o", "m">>),
     PyStr(Http \o <<"b", "i", "n", ".", "o", "r", "g">>),
     PyStr(HttpsScheme \o <<"e", "x", ".", "c", "o", "m">>)}

\* the completion service as one run of the script meets it: an answer, or
\* no API key
MainCompletions ==
    {[kind |-> "ok", text |-> <<" ", "a", "\n">>, error |-> ""],
     [kind |-> "raise", text |-> <<>>, error |-> "AuthenticationError"]}

Init ==
    /\ pc = "main"
    /\ log = <<>>
    /\ clicked \in BOOLEAN
    /\ url1 \in InputUrls
    /\ url2 \in InputUrls
    /\ env \in [net : [1..2 -> NetAnswers], genie : [1..2 -> MainCompletions]]
    /\ html1 = Unbound /\ html2 = Unbound
    /\ score1 = Unbound /\ score2 = Unbound
    /\ ScoreIdle /\ FetchIdle /\ KwIdle /\ GenieIdle

\* lines 148-158: the page header, the inputs and the button
RenderInputs ==
    /\ pc = "main"
    /\ log' = log \o << <<"st.title", 0, "SEO Genie", 0>>,
                        <<"st.text_input", 1, "url1", url1.s>>,
                        <<"st.text_input", 2, "url2", url2.s>>,
                        <<"st.button", 0, "Analyze", clicked>> >>
    /\ pc' = IF clicked THEN "site1" ELSE "footer"
    /\ UNCHANGED <<clicked, url1, url2, env, html1, html2, score1, score2,
                   scoreVars, fetchVars, kwVars, genieVars>>

\* lines 159-184
AnalyzeSite1 ==
    /\ pc = "site1"
    /\ IF Truthy(url1)
       THEN LET r == AnalyzeSite(1, url1.s, env.net[1], env.genie[1], score1) IN
              /\ html1' = r.html
              /\ score1' = r.score
              /\ log' = log \o r.out
       ELSE UNCHANGED <<html1, score1, log>>
    /\ pc' = "site2"
    /\ UNCHANGED <<clicked, url1, url2, env, html2, score2,
                   scoreVars, fetchVars, kwVars, genieVars>>

\* lines 186-210
AnalyzeSite2 ==
    /\ pc = "site2"
    /\ IF Truthy(url2)
       THEN LET r == AnalyzeSite(2, url2.s, env.net[2], env.genie[2], score2) IN
              /\ html2' = r.html
              /\ score2' = r.score
              /\ log' = log \o r.out
       ELSE UNCHANGED <<html2, score2, log>>
    /\ pc' = "summary"
    /\ UNCHANGED <<clicked, url1, url2, env, html1, score1,
                   scoreVars, fetchVars, kwVars, genieVars>>

\* lines 213-221
Summarize ==
    /\ pc = "summary"
    /\ IF Truthy(url1) /\ Truthy(url2)
       THEN LET r == ComparisonSummary(score1, score2) IN
              /\ log' = log \o r.out
              /\ pc' = IF r.raised THEN "raised" ELSE "footer"
       ELSE /\ pc' = "footer"
            /\ UNCHANGED log
    /\ UNCHANGED <<mainVars, scoreVars, fetchVars, kwVars, genieVars>>

\* lines 223-225, after which the script has run to its end
RenderFooter ==
    /\ pc = "footer"
    /\ log' = log \o << <<"st.markdown", 0, "---", 0>>,
                        <<"st.write", 0, "Pro Tip", 0>> >>
    /\ pc' = "idle"
    /\ UNCHANGED <<mainVars, scoreVars, fetchVars, kwVars, genieVars>>

Next ==
    \/ RenderInputs
    \/ AnalyzeSite1
    \/ AnalyzeSite2
    \/ Summarize
    \/ RenderFooter

Spec == Init /\ [][Next]_vars

\* the helpers a site's analysis calls, in the order of the code
Steps ==
    <<"fetch_html", "extract_onpage_data", "calculate_seo_score",
      "generate_wordcloud", "get_top_keywords", "call_seo_genie">>
StepNo(name) == CHOOSE k \in 1..Len(Steps) : Steps[k] = name
IsStep(e) == e[1] = "call"
IsSummary(e) == e[1] = "st.title" /\ e[3] = "Comparison Summary"
\* where an entry of the log stands in a run: site, then step; the summary last
Rank(e) == IF IsSummary(e) THEN 100 ELSE 10 * e[2] + StepNo(e[3])
Ran(site, name) ==
    \E i \in 1..Len(log) : IsStep(log[i]) /\ log[i][2] = site /\ log[i][3] = name
SummaryEntered == \E i \in 1..Len(log) : IsSummary(log[i])
FooterRendered ==
    \E i \in 1..Len(log) : log[i][1] = "st.write" /\ log[i][3] = "Pro Tip"
HtmlOf(site) == IF site = 1 THEN html1 ELSE html2
UrlOf(site) == IF site = 1 THEN url1 ELSE url2
\* the run is past the block of this site
PastSite(site) ==
    IF site = 1 THEN pc \in {"site2", "summary", "footer", "idle", "raised"}
    ELSE pc \in {"summary", "footer", "idle", "raised"}

\* C1: the comparison summary is entered only if both URLs were supplied and
\* both fetches gave a body.
C1_SummaryNeedsBothFetches ==
    SummaryEntered =>
        /\ Truthy(url1) /\ Truthy(url2)
        /\ Truthy(html1) /\ Truthy(html2)

\* C2: no failure is fatal to a run: nothing is raised out of main, and a
\* run that has come to its end has rendered the closing footer.
C2_NoFailureIsFatal ==
    /\ pc # "raised"
    /\ pc = "idle" => FooterRendered

\* C10: the helper calls of a run are strictly ordered: per site fetch,
\* extract, score, keyword analysis, advisory, each at most once and none
\* without the one before it; site 1 wholly before site 2; the summary after
\* both.  A site whose fetch gave None or an empty body runs none of the
\* later steps; a site whose URL was given is fetched, and one whose fetch
\* gave a body runs all its steps, whatever happened to the other site.
C10_StagesOrdered ==
    LET marks == {i \in 1..Len(log) : IsStep(log[i]) \/ IsSummary(log[i])} IN
    /\ \A i, j \in marks : i < j => Rank(log[i]) < Rank(log[j])
    /\ \A i \in marks :
          (IsStep(log[i]) /\ StepNo(log[i][3]) > 1) =>
              \E j \in marks :
                  /\ j < i /\ IsStep(log[j]) /\ log[j][2] = log[i][2]
                  /\ StepNo(log[j][3]) = StepNo(log[i][3]) - 1
    /\ \A site \in 1..2 :
          /\ (clicked /\ PastSite(site) /\ Truthy(UrlOf(site))) => Ran(site, "fetch_html")
          /\ Ran(site, "fetch_html") =>
                IF Truthy(HtmlOf(site))
                THEN \A k \in 1..Len(Steps) : Ran(site, Steps[k])
                ELSE \A k \in 2..Len(Steps) : ~Ran(site, Steps[k])

\* site 1's fetch gave nothing and site 2 was still analyzed to its last step
C10_Witness ==
    /\ clicked /\ PastSite(2)
    /\ Ran(1, "fetch_html") /\ html1 = None
    /\ Truthy(html2) /\ Ran(2, "call_seo_genie")

====
